---- MODULE Spec2Model ----
(***************************************************************************)
(* Model of app.py: a Streamlit script that collects ticker symbols,       *)
(* fetches adjusted closing prices, computes the average annual log return *)
(* and a beta against SPY, prints one line per ticker and draws a chart.   *)
(*                                                                         *)
(* Numbers.  A price is a power of two, written by its exponent e          *)
(* (price = 2^e), so that every log return is an exact integer multiple of *)
(* ln 2: ln(2^a / 2^b) = (a - b) * ln 2.  A missing price (pandas NaN) is  *)
(* written NaNPrice.  Means and slopes are exact fractions num/den.        *)
(* Average annual returns are given in units of ln 2.                      *)
(***************************************************************************)
EXTENDS Integers, Sequences, FiniteSets

\* ---------------------------------------------------------------- bounds
MaxDates == 3
MaxExp == 1
MaxSlots == 3

\* ------------------------------------------------------------- constants
TradingDays == 252
Percent == 100
PaletteSize == 13
NaNPrice == -1

Benchmark == "SPY"
Blank == ""
Symbols == {"AAPL", "ZZZZZZ", "SPY"}

Dates == 1..MaxDates
Prices == (0..MaxExp) \cup {NaNPrice}

\* ------------------------------------------------------------ arithmetic
Abs(n) == IF n < 0 THEN -n ELSE n

RECURSIVE Gcd(_, _)
Gcd(a, b) == IF b = 0 THEN a ELSE Gcd(b, a % b)

\* A float: None, NaN or the exact fraction num/den in lowest terms.
NoneVal == [kind |-> "None", num |-> 0, den |-> 1]
NaNVal == [kind |-> "NaN", num |-> 0, den |-> 1]

Frac(n, d) ==
    LET g == Gcd(Abs(n), Abs(d))
        s == IF d < 0 THEN -1 ELSE 1
    IN  [kind |-> "num", num |-> (s * n) \div g, den |-> (s * d) \div g]

\* f"{beta:.2f}": the value rounded to the nearest hundredth (ties to even),
\* or the text "nan".
Format2f(v) ==
    IF v.kind = "NaN" THEN [nan |-> TRUE, hundredths |-> 0]
    ELSE LET n == 100 * v.num
             q == n \div v.den
             r == n % v.den
             up == \/ 2 * r > v.den
                   \/ 2 * r = v.den /\ q % 2 = 1
         IN  [nan |-> FALSE, hundredths |-> IF up THEN q + 1 ELSE q]

\* ---------------------------------------------------------------- series
\* A pandas Series indexed by date: a function from a set of dates to prices.
Series == UNION {[D -> Prices] : D \in SUBSET Dates}
EmptySeries == [d \in {} |-> 0]

\* Dates of a series before d; the row that shift(1) moves onto d is the last.
Before(s, d) == {x \in DOMAIN s : x < d}
Prev(s, d) == CHOOSE x \in Before(s, d) : \A y \in Before(s, d) : y <= x

\* np.log(s / s.shift(1)).dropna(): the first row and every row whose own or
\* previous price is NaN are dropped; the rest are exponent differences.
LogReturns(s) ==
    LET kept == {d \in DOMAIN s : /\ Before(s, d) # {}
                                  /\ s[d] # NaNPrice
                                  /\ s[Prev(s, d)] # NaNPrice}
    IN  [d \in kept |-> s[d] - s[Prev(s, d)]]

\* The values of a series in index order (what numpy sees of a Series).
RECURSIVE Values(_)
Values(s) ==
    IF DOMAIN s = {} THEN <<>>
    ELSE LET last == CHOOSE d \in DOMAIN s : \A y \in DOMAIN s : y <= d
         IN  Append(Values([d \in DOMAIN s \ {last} |-> s[d]]), s[last])

RECURSIVE Sum(_)
Sum(xs) == IF xs = <<>> THEN 0 ELSE xs[1] + Sum(Tail(xs))

RECURSIVE Dot(_, _)
Dot(xs, ys) == IF xs = <<>> THEN 0 ELSE xs[1] * ys[1] + Dot(Tail(xs), Tail(ys))

\* Series.mean(): NaN on an empty series, else the arithmetic mean.
Mean(s) ==
    IF DOMAIN s = {} THEN NaNVal
    ELSE Frac(Sum(Values(s)), Cardinality(DOMAIN s))

\* v * k for a float v and an integer k (NaN stays NaN).
Times(v, k) == IF v.kind = "num" THEN Frac(v.num * k, v.den) ELSE v

\* ------------------------------------------------------- market provider
\* What one yf.download call can produce: an exception, or a DataFrame with
\* a date index, with or without an 'Adj Close' column.
RaisedFrame == [raises |-> TRUE, index |-> {}, hasAdj |-> FALSE, adj |-> EmptySeries]
DataFrame(idx, has, col) == [raises |-> FALSE, index |-> idx, hasAdj |-> has, adj |-> col]

Frames ==
    {RaisedFrame}
    \cup {DataFrame({}, has, EmptySeries) : has \in BOOLEAN}
    \cup {DataFrame(Dates, FALSE, EmptySeries)}
    \cup {DataFrame(DOMAIN s, TRUE, s) : s \in Series \ {EmptySeries}}

\* yf.download(ticker, period=selected_time_period, auto_adjust=False)
yf_download(world, ticker) == world[ticker]

\* st.error texts, one kind per distinct f-string.
Error(kind, ticker) == [widget |-> "error", kind |-> kind, ticker |-> ticker,
                        text |-> [nan |-> FALSE, hundredths |-> 0]]

\* The result of a call: the returned value, the yf.download calls it issued
\* (by ticker, in order) and the st.error messages it showed (in order).
Fetched(isNone, data, calls, errors) ==
    [none |-> isNone, data |-> data, calls |-> calls, errors |-> errors]

\* A mutant that looks for the 'Adj Close' column before the empty check.
get_historical_data_column_first(world, ticker) ==
    IF ticker = Blank THEN Fetched(TRUE, EmptySeries, <<>>, <<>>)
    ELSE LET stock_data == yf_download(world, ticker)
         IN  IF stock_data.raises
               THEN Fetched(TRUE, EmptySeries, <<ticker>>, <<Error("fetch_failed", ticker)>>)
             ELSE IF stock_data.hasAdj
               THEN Fetched(FALSE, stock_data.adj, <<ticker>>, <<>>)
             ELSE IF stock_data.index = {}
               THEN Fetched(TRUE, EmptySeries, <<ticker>>, <<Error("no_data", ticker)>>)
             ELSE Fetched(TRUE, EmptySeries, <<ticker>>, <<Error("not_available", ticker)>>)

get_historical_data(world, ticker) ==
    IF ticker = Blank THEN Fetched(TRUE, EmptySeries, <<>>, <<>>)
    ELSE LET stock_data == yf_download(world, ticker)
         IN  IF stock_data.raises
               THEN Fetched(TRUE, EmptySeries, <<ticker>>, <<Error("fetch_failed", ticker)>>)
             ELSE IF stock_data.index = {}
               THEN Fetched(TRUE, EmptySeries, <<ticker>>, <<Error("no_data", ticker)>>)
             ELSE IF stock_data.hasAdj
               THEN Fetched(FALSE, stock_data.adj, <<ticker>>, <<>>)
             ELSE Fetched(TRUE, EmptySeries, <<ticker>>, <<Error("not_available", ticker)>>)

Computed(val, calls, errors) == [val |-> val, calls |-> calls, errors |-> errors]

calculate_average_annual_return(world, ticker2) ==
    LET closing_prices == get_historical_data(world, ticker2)
    IN  IF closing_prices.none
          THEN Computed(NoneVal, closing_prices.calls, closing_prices.errors)
        ELSE LET log_returns == LogReturns(closing_prices.data)
                 average_daily_return == Mean(log_returns)
                 average_annual_return == Times(average_daily_return, TradingDays)
             IN  Computed(Times(average_annual_return, Percent),
                          closing_prices.calls, closing_prices.errors)

\* np.polyfit(x, y, 1)[0]: the possible outcomes of the fit, as a set.
\*  - x empty, or x and y of different lengths: TypeError;
\*  - x with two distinct values: the least-squares slope;
\*  - x constant c # 0 (rank-deficient): the minimum-norm solution of the
\*    column-scaled system, slope = mean(y) / (2c);
\*  - x constant 0: the scaled column is 0/0 = NaN, and the LAPACK solver
\*    either fails to converge (LinAlgError) or yields NaN.
Raised == [raises |-> TRUE, slope |-> NoneVal]
Fitted(v) == [raises |-> FALSE, slope |-> v]

\* A mutant that takes the intercept for the slope.
polyfit_intercept(x, y) ==
    LET n == Len(x)
        det == n * Dot(x, x) - Sum(x) * Sum(x)
    IN  IF n = 0 \/ n # Len(y) THEN {Raised}
        ELSE IF det # 0 THEN {Fitted(Frac(Sum(y) * Dot(x, x) - Sum(x) * Dot(x, y), det))}
        ELSE IF x[1] # 0 THEN {Fitted(Frac(Sum(y), 2 * x[1] * n))}
        ELSE {Raised, Fitted(NaNVal)}

polyfit(x, y) ==
    LET n == Len(x)
        det == n * Dot(x, x) - Sum(x) * Sum(x)
    IN  IF n = 0 \/ n # Len(y) THEN {Raised}
        ELSE IF det # 0 THEN {Fitted(Frac(n * Dot(x, y) - Sum(x) * Sum(y), det))}
        ELSE IF x[1] # 0 THEN {Fitted(Frac(Sum(y), 2 * x[1] * n))}
        ELSE {Raised, Fitted(NaNVal)}

\* pd.merge(stock_data, spy_data, how='inner', left_index=True,
\* right_index=True): one row per date of both indexes, two price columns.
merge(stock_data, spy_data) ==
    LET both == DOMAIN stock_data \cap DOMAIN spy_data
    IN  [stock |-> [d \in both |-> stock_data[d]],
         spy |-> [d \in both |-> spy_data[d]]]

\* The two log-return series handed to the regression.
RegressionInput(stock_data, spy_data) ==
    LET merged_data == merge(stock_data, spy_data)
    IN  [log_returns_stock |-> LogReturns(merged_data.stock),
         log_returns_spy |-> LogReturns(merged_data.spy)]

\* calculate_beta after the SPY shortcut: the two fetches, the merge and the
\* fit, inside the try/except.  The set of possible results (see polyfit).
regress_on_spy(world, ticker) ==
    LET stock_data == get_historical_data(world, ticker)
    IN  IF stock_data.none
          THEN {Computed(NoneVal, stock_data.calls, stock_data.errors)}
        ELSE
        LET spy_frame == yf_download(world, Benchmark)
            calls == Append(stock_data.calls, Benchmark)
            failed == Computed(NoneVal, calls,
                               Append(stock_data.errors, Error("beta_failed", ticker)))
        IN  IF spy_frame.raises \/ ~spy_frame.hasAdj THEN {failed}
            ELSE IF DOMAIN spy_frame.adj = {}
              THEN {Computed(NoneVal, calls,
                             Append(stock_data.errors, Error("no_spy_data", Benchmark)))}
            ELSE
            LET r == RegressionInput(stock_data.data, spy_frame.adj)
            IN  {IF fit.raises THEN failed
                 ELSE Computed(fit.slope, calls, stock_data.errors) :
                   fit \in polyfit(Values(r.log_returns_spy), Values(r.log_returns_stock))}

\* A mutant that has lost the SPY shortcut.
calculate_beta_without_shortcut(world, ticker) == regress_on_spy(world, ticker)

\* calculate_beta: 1.00 for SPY without fetching, else the regression.
calculate_beta(world, ticker) ==
    IF ticker = Benchmark THEN {Computed(Frac(1, 1), <<>>, <<>>)}
    ELSE regress_on_spy(world, ticker)

\* visualize_returns: one trace per ticker whose fetch returned data, coloured
\* by the ticker's position in the list.
Trace(name, color, data) == [name |-> name, color |-> color, data |-> data]
Drawn(traces, calls, errors) == [traces |-> traces, calls |-> calls, errors |-> errors]

RECURSIVE AddTraces(_, _, _, _)
AddTraces(world, list, i, fig) ==
    IF i > Len(list) THEN fig
    ELSE LET data == get_historical_data(world, list[i])
             traces == IF data.none THEN fig.traces
                       ELSE Append(fig.traces,
                                   Trace(list[i], (i - 1) % PaletteSize, data.data))
         IN  AddTraces(world, list, i + 1,
                       Drawn(traces, fig.calls \o data.calls, fig.errors \o data.errors))

\* A mutant that draws from the data already fetched (no download of its own).
visualize_returns_from_cache(world, list) ==
    LET drawn == AddTraces(world, list, 1, Drawn(<<>>, <<>>, <<>>))
    IN  Drawn(drawn.traces, <<>>, drawn.errors)

visualize_returns(world, list) == AddTraces(world, list, 1, Drawn(<<>>, <<>>, <<>>))

\* ------------------------------------------------------------ page output
NoText == [nan |-> FALSE, hundredths |-> 0]
Write(kind, ticker, text) == [widget |-> "write", kind |-> kind, ticker |-> ticker, text |-> text]
Chart == [widget |-> "chart", kind |-> "plotly_chart", ticker |-> Blank, text |-> NoText]

\* A mutant that prints a beta line whether or not there is a beta.
BetaLine_unguarded(ticker, beta) ==
    IF ticker # Benchmark
      THEN Write("beta_is", ticker, Format2f(beta))
    ELSE Write("spy_is_1.00", Benchmark, NoText)

\* The st.write of the display branch for one ticker and its beta.
BetaLine(ticker, beta) ==
    IF beta.kind # "None"
      THEN IF ticker # Benchmark
             THEN Write("beta_is", ticker, Format2f(beta))
           ELSE Write("spy_is_1.00", Benchmark, NoText)
    ELSE Write("empty", Blank, NoText)

\* ------------------------------------------------------------------ state
VARIABLES
    slots,              \* the text the user left in each input slot, in order
    provider,           \* what yf.download answers for each symbol in this run
    pc,                 \* position of the script: collect, compute, done
    read,               \* number of st.text_input slots read so far
    tickers,
    pos,                \* 1-based position of the for loop over tickers
    valid_tickers,
    individual_returns,
    individual_betas,
    page,               \* st.error / st.write / st.plotly_chart elements, in order
    calls,              \* tickers of the yf.download calls issued, in order
    rows,               \* per processed ticker: what its two calculators did
    fig,                \* traces of the rendered chart
    fnName,             \* single-call runs: the function called, its argument
    fnArg,              \*   and what it returned
    fnOut

vars == <<slots, provider, pc, read, tickers, pos, valid_tickers,
          individual_returns, individual_betas, page, calls, rows, fig,
          fnName, fnArg, fnOut>>

\* Price histories the full-run model lets the provider answer with: flat
\* prices over the first n dates, and a price that steps up once after the
\* first date, with full coverage or with the first date missing.
Flat(n) == [d \in 1..n |-> 0]
Step(D) == [d \in D |-> IF d = 1 THEN 0 ELSE 1]
SampleSeries == {Flat(n) : n \in Dates} \cup {Step(Dates), Step(Dates \ {1})}

FailedFrames == {f \in Frames : f.raises \/ f.index = {} \/ ~f.hasAdj}
EmptyFrames == {f \in Frames : ~f.raises /\ f.index = {}}
SampleFrames == FailedFrames \cup {DataFrame(DOMAIN s, TRUE, s) : s \in SampleSeries}

\* ZZZZZZ is a symbol the provider does not know.
Worlds == {w \in [Symbols -> SampleFrames] : w["ZZZZZZ"] \in EmptyFrames}

Init ==
    /\ slots \in [1..MaxSlots -> Symbols \cup {Blank}]
    /\ provider \in Worlds
    /\ pc = "collect"
    /\ read = 0
    /\ tickers = <<>>
    /\ pos = 1
    /\ valid_tickers = <<>>
    /\ individual_returns = <<>>
    /\ individual_betas = <<>>
    /\ page = <<>>
    /\ calls = <<>>
    /\ rows = <<>>
    /\ fig = <<>>
    /\ fnName = "none"
    /\ fnArg = Blank
    /\ fnOut = <<>>

\* A mutant that appends the entry before testing it for blank.
CollectTicker_append_first ==
    /\ pc = "collect"
    /\ Len(tickers) < MaxSlots
    /\ LET new_ticker == slots[Len(tickers) + 1]
       IN  /\ read' = read + 1
           /\ tickers' = Append(tickers, new_ticker)
           /\ pc' = IF new_ticker = Blank THEN "compute" ELSE pc
    /\ UNCHANGED <<slots, provider, pos, valid_tickers, individual_returns,
                   individual_betas, page, calls, rows, fig, fnName, fnArg, fnOut>>

\* One iteration of the `while True` input loop: read the slot keyed
\* len(tickers); stop on a blank, else append.  Slots past MaxSlots are not
\* modelled, so the loop is cut there.
CollectTicker ==
    /\ pc = "collect"
    /\ Len(tickers) < MaxSlots
    /\ LET new_ticker == slots[Len(tickers) + 1]
       IN  /\ read' = read + 1
           /\ IF new_ticker = Blank
                THEN pc' = "compute" /\ tickers' = tickers
              ELSE pc' = pc /\ tickers' = Append(tickers, new_ticker)
    /\ UNCHANGED <<slots, provider, pos, valid_tickers, individual_returns,
                   individual_betas, page, calls, rows, fig, fnName, fnArg, fnOut>>

\* One iteration of `for ticker in tickers`.
ComputeTicker ==
    /\ pc = "compute"
    /\ pos <= Len(tickers)
    /\ LET ticker == tickers[pos]
           average_annual_return == calculate_average_annual_return(provider, ticker)
       IN  \E beta \in calculate_beta(provider, ticker) :
             /\ IF average_annual_return.val.kind # "None"
                  THEN /\ individual_returns' =
                            Append(individual_returns, average_annual_return.val)
                       /\ valid_tickers' = Append(valid_tickers, ticker)
                ELSE UNCHANGED <<individual_returns, valid_tickers>>
             /\ individual_betas' =
                  IF beta.val.kind # "None" /\ ticker # Benchmark
                    THEN Append(individual_betas, beta.val)
                  ELSE individual_betas
             /\ page' = page \o average_annual_return.errors \o beta.errors
                             \o <<BetaLine(ticker, beta.val)>>
             /\ calls' = calls \o average_annual_return.calls \o beta.calls
             /\ rows' = Append(rows, [ticker |-> ticker,
                                      ret |-> average_annual_return,
                                      beta |-> beta,
                                      line |-> BetaLine(ticker, beta.val)])
    /\ pos' = pos + 1
    /\ UNCHANGED <<slots, provider, pc, read, tickers, fig, fnName, fnArg, fnOut>>

InList(x, list) == \E k \in 1..Len(list) : list[k] = x

\* A mutant that only looks at the betas.
ChartCondition_betas_only == individual_betas # <<>>

\* The chart-or-message step after the loop.
ChartCondition == individual_betas # <<>> \/ InList(Benchmark, valid_tickers)

ChartOrEmpty ==
    /\ pc = "compute"
    /\ pos > Len(tickers)
    /\ IF ChartCondition
         THEN LET drawn == visualize_returns(provider, valid_tickers)
              IN  /\ page' = page \o drawn.errors \o <<Chart>>
                  /\ calls' = calls \o drawn.calls
                  /\ fig' = drawn.traces
       ELSE /\ page' = Append(page, Write("no_valid_tickers", Blank, NoText))
            /\ UNCHANGED <<calls, fig>>
    /\ pc' = "done"
    /\ UNCHANGED <<slots, provider, read, tickers, pos, valid_tickers,
                   individual_returns, individual_betas, rows, fnName, fnArg, fnOut>>

Next == CollectTicker \/ ComputeTicker \/ ChartOrEmpty

Spec == Init /\ [][Next]_vars

\* The input loop runs on its own: an iteration that can be taken is taken.
FairSpec == Spec /\ WF_vars(CollectTicker)

\* ------------------------------------------------------ single-call runs
\* One call of one function on one input, for the claims about a function
\* taken alone.  The rest of the script's state is left as constructed.
Idle ==
    /\ slots = [k \in 1..MaxSlots |-> Blank]
    /\ pc = "call"
    /\ read = 0
    /\ tickers = <<>>
    /\ pos = 1
    /\ valid_tickers = <<>>
    /\ individual_returns = <<>>
    /\ individual_betas = <<>>
    /\ page = <<>>
    /\ calls = <<>>
    /\ rows = <<>>
    /\ fig = <<>>
    /\ fnName = "none"
    /\ fnOut = <<>>

\* Every ticker text (blank included) against every provider answer.
FetchInit ==
    /\ Idle
    /\ fnArg \in {Blank, "AAPL", Benchmark}
    /\ \E f \in Frames : provider = [s \in Symbols |-> f]

CallGetHistoricalData ==
    /\ pc = "call"
    /\ pc' = "returned"
    /\ fnName' = "get_historical_data"
    /\ fnOut' = get_historical_data(provider, fnArg)
    /\ UNCHANGED <<slots, provider, read, tickers, pos, valid_tickers,
                   individual_returns, individual_betas, page, calls, rows, fig, fnArg>>

CallCalculateAverageAnnualReturn ==
    /\ pc = "call"
    /\ pc' = "returned"
    /\ fnName' = "calculate_average_annual_return"
    /\ fnOut' = calculate_average_annual_return(provider, fnArg)
    /\ UNCHANGED <<slots, provider, read, tickers, pos, valid_tickers,
                   individual_returns, individual_betas, page, calls, rows, fig, fnArg>>

FetchNext == CallGetHistoricalData \/ CallCalculateAverageAnnualReturn

FetchSpec == FetchInit /\ [][FetchNext]_vars

\* Every answer for the ticker against every answer for the benchmark; when
\* the ticker is the benchmark the two answers are the same one.
BetaInit ==
    /\ Idle
    /\ fnArg \in {"AAPL", Benchmark}
    /\ \E fs \in Frames, fb \in Frames :
         /\ fnArg = Benchmark => fs = fb
         /\ provider = [s \in Symbols |-> IF s = Benchmark THEN fb ELSE fs]

CallCalculateBeta ==
    /\ pc = "call"
    /\ pc' = "returned"
    /\ fnName' = "calculate_beta"
    /\ \E beta \in calculate_beta(provider, fnArg) : fnOut' = beta
    /\ UNCHANGED <<slots, provider, read, tickers, pos, valid_tickers,
                   individual_returns, individual_betas, page, calls, rows, fig, fnArg>>

BetaNext == CallCalculateBeta

BetaSpec == BetaInit /\ [][BetaNext]_vars

\* ----------------------------------------------------------------- claims
RECURSIVE Count(_, _)
Count(x, list) ==
    IF list = <<>> THEN 0
    ELSE (IF list[1] = x THEN 1 ELSE 0) + Count(x, Tail(list))

OnPage(e) == InList(e, page)
Usable(f) == ~f.raises /\ f.index # {} /\ f.hasAdj
SpyLine == Write("spy_is_1.00", Benchmark, NoText)

\* C1: every processed SPY entry got beta exactly 1.00 from a calculate_beta
\* call that issued no fetch and showed no error, whatever the provider
\* answers for SPY, and its line on the page is the fixed "Beta for SPY is
\* 1.00".
C1_SpyBetaIsOne ==
    \A i \in 1..Len(rows) :
      rows[i].ticker = Benchmark =>
        /\ rows[i].beta = Computed(Frac(1, 1), <<>>, <<>>)
        /\ rows[i].line = SpyLine
        /\ OnPage(SpyLine)

C1_Witness ==
    \E i \in 1..Len(rows) :
      /\ rows[i].ticker = Benchmark
      /\ provider[Benchmark].raises
      /\ OnPage(SpyLine)

SingleEntryRun == pc = "done" /\ Len(tickers) = 1 /\ tickers[1] # Benchmark

\* C2 as stated: a run over one non-benchmark ticker and a blank slot issues
\* exactly one fetch for the ticker and none for the blank, and the chart has
\* one line if the ticker has data.
C2_ExactlyOneFetch ==
    SingleEntryRun =>
      /\ Count(tickers[1], calls) = 1
      /\ Count(Blank, calls) = 0
      /\ Usable(provider[tickers[1]]) => Len(fig) = 1

\* C2 amended: in such a run the ticker is fetched twice while computing
\* (return, beta) and a third time exactly when the chart is rendered; SPY
\* is fetched once exactly when the ticker's own fetch gave data; the blank
\* entry is never fetched; the chart is rendered exactly when a beta was
\* produced, and then it has one line, the ticker's.
C2_FetchesOfSingleEntry ==
    SingleEntryRun =>
      LET t == tickers[1]
          charted == OnPage(Chart)
      IN  /\ Count(t, calls) = IF charted THEN 3 ELSE 2
          /\ Count(Benchmark, calls) = IF Usable(provider[t]) THEN 1 ELSE 0
          /\ Count(Blank, calls) = 0
          /\ charted <=> rows[1].beta.val.kind # "None"
          /\ charted => Len(fig) = 1 /\ fig[1].name = t

C2_Witness ==
    /\ SingleEntryRun
    /\ slots[2] = Blank
    /\ Count(tickers[1], calls) = 3
    /\ Len(fig) = 1

\* C3: get_historical_data always returns, a series or None.  A blank ticker:
\* None, no download, no message.  A raising download: None and exactly the
\* fetch-failure message.  An empty frame: None and exactly the no-data
\* message.  A frame without 'Adj Close': None and exactly the not-available
\* message.  Otherwise the 'Adj Close' column and no message.  One download
\* per call on a non-blank ticker.
C3_FetcherTotal ==
    fnName = "get_historical_data" =>
      LET f == provider[IF fnArg = Blank THEN Benchmark ELSE fnArg]
          out == fnOut
      IN  IF fnArg = Blank
            THEN out = Fetched(TRUE, EmptySeries, <<>>, <<>>)
          ELSE /\ out.calls = <<fnArg>>
               /\ f.raises =>
                    out.none /\ out.errors = <<Error("fetch_failed", fnArg)>>
               /\ ~f.raises /\ f.index = {} =>
                    out.none /\ out.errors = <<Error("no_data", fnArg)>>
               /\ ~f.raises /\ f.index # {} /\ ~f.hasAdj =>
                    out.none /\ out.errors = <<Error("not_available", fnArg)>>
               /\ Usable(f) =>
                    ~out.none /\ out.data = f.adj /\ out.errors = <<>>

C3_Witness ==
    /\ fnName = "get_historical_data"
    /\ fnArg # Blank
    /\ provider[fnArg].raises
    /\ fnOut.none
    /\ Len(fnOut.errors) = 1

\* C4 as stated: for a non-benchmark ticker with data, any failure to get the
\* SPY series (raising download, empty frame, frame without 'Adj Close')
\* gives None with the SPY-specific message and no other.
C4_BenchmarkFailureMessage ==
    (/\ fnName = "calculate_beta"
     /\ fnArg # Benchmark
     /\ Usable(provider[fnArg])
     /\ ~Usable(provider[Benchmark]))
    => /\ fnOut.val = NoneVal
       /\ fnOut.errors = <<Error("no_spy_data", Benchmark)>>

\* C5 as stated: a ticker whose price series has one row gets None as its
\* average annual return and is not put on the valid-ticker list.
C5_SingleRowReturnIsNone ==
    \A i \in 1..Len(rows) :
      LET f == provider[rows[i].ticker]
      IN  Usable(f) /\ Cardinality(f.index) = 1 =>
            /\ rows[i].ret.val = NoneVal
            /\ ~InList(rows[i].ticker, valid_tickers)

Unknown(t) == t # Benchmark /\ provider[t] \in EmptyFrames
NoValidLine == Write("no_valid_tickers", Blank, NoText)

\* C6: a ticker the provider does not know (empty result) gets a no-data
\* message and no beta line; every collected ticker is still processed, in
\* entry order, each with the return, beta and beta line that its own
\* provider answers determine, and the run ends on the chart-or-message step.
C6_FailuresIsolated ==
    /\ Len(rows) = pos - 1
    /\ pc = "compute" => pos <= Len(tickers) + 1
    /\ pc = "done" => Len(rows) = Len(tickers) /\ page[Len(page)] \in {Chart, NoValidLine}
    /\ \A i \in 1..Len(rows) :
         LET t == tickers[i]
         IN  /\ rows[i].ticker = t
             /\ rows[i].ret = calculate_average_annual_return(provider, t)
             /\ rows[i].beta \in calculate_beta(provider, t)
             /\ rows[i].line = BetaLine(t, rows[i].beta.val)
             /\ OnPage(rows[i].line)
             /\ Unknown(t) =>
                  /\ OnPage(Error("no_data", t))
                  /\ rows[i].line.kind = "empty"
                  /\ \A k \in 1..Len(page) :
                       page[k].kind = "beta_is" => page[k].ticker # t

C6_Witness ==
    /\ pc = "done"
    /\ Len(tickers) = 2
    /\ Unknown(tickers[1])
    /\ tickers[2] # Benchmark
    /\ rows[2].line.kind = "beta_is"
    /\ OnPage(Chart)

ProducedBeta == \E i \in 1..Len(rows) :
                  rows[i].ticker # Benchmark /\ rows[i].beta.val.kind # "None"
SpyReturnComputed == \E i \in 1..Len(rows) :
                       rows[i].ticker = Benchmark /\ rows[i].ret.val.kind # "None"
ChartXorMessage ==
    Count(Chart, page) + Count(NoValidLine, page) = IF pc = "done" THEN 1 ELSE 0

\* C7 as stated: the run ends with the chart or the no-valid-tickers message,
\* never both; the chart exactly when a non-benchmark ticker produced a beta
\* or SPY was entered, whether or not SPY's own fetch succeeded.
C7_ChartIffBetaOrSpyEntered ==
    /\ ChartXorMessage
    /\ pc = "done" => (OnPage(Chart) <=> ProducedBeta \/ InList(Benchmark, tickers))

\* C7 amended: the run ends with the chart or the no-valid-tickers message,
\* never both; the chart exactly when a non-benchmark ticker produced a beta
\* or SPY was entered and its own return was computed (its fetch gave data).
C7_ChartIffBetaOrSpyValid ==
    /\ ChartXorMessage
    /\ pc = "done" => (OnPage(Chart) <=> ProducedBeta \/ SpyReturnComputed)

C7_Witness ==
    /\ pc = "done"
    /\ InList(Benchmark, tickers)
    /\ ~Usable(provider[Benchmark])
    /\ OnPage(NoValidLine)

HasBlank == \E k \in 1..MaxSlots : slots[k] = Blank
FirstBlank == IF HasBlank
                THEN CHOOSE k \in 1..MaxSlots :
                       slots[k] = Blank /\ \A j \in 1..(k - 1) : slots[j] # Blank
              ELSE MaxSlots + 1

C10_CollectedPrefix ==
    /\ Len(tickers) < FirstBlank
    /\ tickers = SubSeq(slots, 1, Len(tickers))
    /\ \A k \in 1..Len(tickers) : tickers[k] # Blank
    /\ read <= FirstBlank
    /\ pc = "collect" => read = Len(tickers)
    /\ pc # "collect" =>
         /\ HasBlank
         /\ read = FirstBlank
         /\ tickers = SubSeq(slots, 1, FirstBlank - 1)

\* C10: the slots are read in order up to the first blank one and no further;
\* the collected list is the entries before it, in order, with no empty
\* string; the loop is left only on a blank slot, and is left whenever there
\* is one.
C10_StopsAtFirstBlank ==
    /\ []C10_CollectedPrefix
    /\ HasBlank ~> (pc # "collect")

C10_Witness ==
    /\ pc = "done"
    /\ Len(tickers) = 1
    /\ slots[2] = Blank
    /\ slots[3] # Blank
    /\ read = 2

\* A calculate_beta call that got both price series.
BetaCase ==
    /\ fnName = "calculate_beta"
    /\ fnArg # Benchmark
    /\ Usable(provider[fnArg])
    /\ Usable(provider[Benchmark])

Fed == RegressionInput(provider[fnArg].adj, provider[Benchmark].adj)
CommonDates == provider[fnArg].index \cap provider[Benchmark].index

\* stock_return = (p/q) * benchmark_return at every aligned point.
Proportional(p, q) ==
    /\ DOMAIN Fed.log_returns_stock = DOMAIN Fed.log_returns_spy
    /\ \A d \in DOMAIN Fed.log_returns_spy :
         q * Fed.log_returns_stock[d] = p * Fed.log_returns_spy[d]

Ratios == (-MaxExp..MaxExp) \X (1..MaxExp)
BenchmarkMoves == \E d \in DOMAIN Fed.log_returns_spy : Fed.log_returns_spy[d] # 0
BenchmarkVaries ==
    \E d, e \in DOMAIN Fed.log_returns_spy :
      Fed.log_returns_spy[d] # Fed.log_returns_spy[e]

\* C8 as stated: whenever the stock's returns are k times the benchmark's at
\* every aligned point (with some non-zero benchmark return, so that k is
\* determined), the beta returned is k.
C8_SlopeIsRatio ==
    BetaCase /\ BenchmarkMoves =>
      \A k \in Ratios : Proportional(k[1], k[2]) => fnOut.val = Frac(k[1], k[2])

\* C8 amended: whenever the stock's returns are k times the benchmark's at
\* every aligned point and the benchmark's aligned returns take at least two
\* distinct values, the beta returned is k (0 for a constant stock price, 1
\* for the benchmark's own series).
C8_SlopeIsRatioWhenBenchmarkVaries ==
    BetaCase /\ BenchmarkVaries =>
      \A k \in Ratios : Proportional(k[1], k[2]) => fnOut.val = Frac(k[1], k[2])

C8_Witness ==
    /\ BetaCase
    /\ BenchmarkVaries
    /\ Proportional(-1, 1)
    /\ fnOut.val = Frac(-1, 1)

\* C9 as stated: the log returns handed to the regression are those of the
\* dates both series have (all but the first of them), the same dates and
\* the same number for the stock and for the benchmark.
C9_AlignedOnCommonDates ==
    BetaCase =>
      LET first == {d \in CommonDates : \A e \in CommonDates : d <= e}
      IN  /\ DOMAIN Fed.log_returns_stock = CommonDates \ first
          /\ DOMAIN Fed.log_returns_spy = CommonDates \ first
          /\ Len(Values(Fed.log_returns_stock)) = Len(Values(Fed.log_returns_spy))

====
